---- MODULE Spec2Model ----
(***************************************************************************)
(* Model of the UniTSyn test-mining pipeline.                              *)
(*                                                                         *)
(*   Spec      collect_from_repo (src/frontend/python/collect_test.py),    *)
(*             run repeatedly for one repository identifier over a         *)
(*             persistent file system (working tree, archive cache,        *)
(*             output file).                                               *)
(*   SpecFleet main of collect_test.py: the aggregation of the per-        *)
(*             repository results returned by mp_map_repos.                *)
(*   SpecPool  main of collect_test.py: the repository list handed to the  *)
(*             worker pool, one task per list entry.                       *)
(*   SpecClassify  collect_test_funcs on the syntax tree of one module.    *)
(*   SpecRunAll    process_repositories of src/run_all.py: download,       *)
(*             extract, collect, clean up, one repository at a time.       *)
(***************************************************************************)
EXTENDS Integers, Sequences, FiniteSets, TLC

VARIABLES
    \* ---- file system, persists across runs of collect_from_repo
    repoTree,        \* what is at repo_path: absent, a regular file, or a directory
    tarball,         \* what is at tarball_path: absent, or an archive file
    outFile,         \* what is at test_path: absent, or a file with its lines
    tempDir,         \* the TemporaryDirectory staging area: absent or its entries
    \* ---- one invocation of collect_from_repo
    pc,              \* position in collect_from_repo
    auto_download,   \* the argument
    extracted_here,  \* local of line 149
    all_files,       \* local of line 222
    idx,             \* position of the for loop of line 224
    test_files,      \* local of line 223
    test_funcs,      \* local of line 223
    widx,            \* position of the for loop of line 242
    result,          \* what the call handed back to its caller
    pending,         \* exception propagating out of the try of line 220
    timerFired,      \* the per-repository timer fires at most once per call
    \* ---- history (not read by the program)
    runs,            \* number of calls started for this identifier
    fetches,         \* number of calls of download_repo
    treeAtStart,     \* repoTree when the current call started
    tarAtStart,      \* tarball when the current call started
    outAtStart,      \* outFile when the current call started
    fetchesAtStart,  \* fetches when the current call started
    placedHere,      \* the current call moved a tree to repo_path
    cleanupFailed,   \* shutil.rmtree of line 257 did not complete
    extractedFrom,   \* the archive the current call opened for extraction
    prevResult,      \* result of the previous call
    \* ---- main (fleet)
    mainPc,
    nrepos,             \* len(repo_id_list)
    status_nfile_ntest, \* line 283
    filtered_results,   \* line 293
    printedTimeout,     \* the number printed by line 295, -1 when not printed
    status,             \* line 296
    nfile,              \* line 296
    ntest,              \* line 296
    status_counter,     \* line 297
    printedProcessed,   \* line 299, -1 when not printed
    printedTests,       \* line 303, -1 when not printed
    printedFiles,       \* line 303, -1 when not printed
    \* ---- the worker pool main hands the repository list to
    repo_id_list,       \* line 276/278, after the cut of line 280
    nprocs,             \* the argument
    nextTask,           \* position of the next list entry to hand to a worker
    worker,             \* per worker: the list entry it runs and where it is
    poolResults,        \* per list entry: what its task returned
    outputs,            \* the sanitized names that have an output file
    \* ---- one call of collect_test_funcs on a parsed module
    ast,                \* the nodes of the parsed module, in document order
    clsPc,              \* position in collect_test_funcs
    funcNodes,          \* funcs of line 42
    fidx,               \* position of the for loop of line 119
    kept,               \* test_funcs of line 118: the nodes kept and their identifiers
    \* ---- run_all.py: process_repositories over a list of repositories
    raPc,               \* position in process_repositories / process_single_repository
    raIdx,              \* position of the for loop of line 269
    repoDirs,           \* per repository: what is at repo_path
    zipFiles,           \* per repository: what is at zip_path
    tmp_repo_file,      \* the temporary list file of lines 182-186 exists
    success,            \* what the current call returns
    successful_count,   \* line 265
    failed_repos,       \* line 266
    \* ---- history (not read by the program)
    zipsAtStart,        \* zipFiles when process_repositories started
    dirsAtStart,        \* repoDirs when process_repositories started
    downloaded,         \* the repositories whose ZIP a call downloaded in full
    rmtreeFailed        \* the repositories for which shutil.rmtree of line 222 raised

fsVars    == <<repoTree, tarball, outFile, tempDir>>
runVars   == <<pc, auto_download, extracted_here, all_files, idx, test_files,
               test_funcs, widx, result, pending, timerFired>>
histVars  == <<runs, fetches, treeAtStart, tarAtStart, outAtStart, fetchesAtStart,
               placedHere, cleanupFailed, extractedFrom, prevResult>>
fleetVars == <<mainPc, nrepos, status_nfile_ntest, filtered_results, printedTimeout,
               status, nfile, ntest, status_counter, printedProcessed,
               printedTests, printedFiles>>
poolVars  == <<repo_id_list, nprocs, nextTask, worker, poolResults, outputs>>
clsVars   == <<ast, clsPc, funcNodes, fidx, kept>>
raVars    == <<raPc, raIdx, repoDirs, zipFiles, tmp_repo_file, success,
               successful_count, failed_repos, zipsAtStart, dirsAtStart, downloaded,
               rmtreeFailed>>
extVars   == <<poolVars, clsVars, raVars>>
vars      == <<fsVars, runVars, histVars, fleetVars, extVars>>

(***************************************************************************)
(* Bounds of the model.                                                    *)
(***************************************************************************)
MaxRuns  == 2     \* calls of collect_from_repo for the identifier
MaxRepos == 3     \* length of the repository list given to main
MaxProcs == 2     \* nprocs, the size of the worker pool
MaxBatch == 2     \* length of the repository list given to process_repositories

(***************************************************************************)
(* Status codes, collect_from_repo docstring (lines 140-141).              *)
(***************************************************************************)
SUCCESS         == 0
NOT_FOUND       == 1
NO_TESTS_FOUND  == 2
SKIPPED         == 3
DOWNLOAD_FAILED == 4
EXTRACT_FAILED  == 5

Ret(s, f, t) == [kind |-> "ret", status |-> s, nfile |-> f, ntest |-> t]
NoneResult   == [kind |-> "none"]      \* the wrapper's value for a timed-out call
Raised       == [kind |-> "raised"]    \* an exception left collect_from_repo
NoResult     == [kind |-> "running"]

Absent == [kind |-> "absent"]

(***************************************************************************)
(* Paths are sequences of components; an absolute path starts with "/".    *)
(***************************************************************************)
Cwd       == <<"/", "work">>
RepoRoot  == <<"data", "repos">>
WrappedId == "owner-name"
RepoPath  == RepoRoot \o <<WrappedId>>

IsAbs(p) == Len(p) > 0 /\ p[1] = "/"

abspath(p) == IF IsAbs(p) THEN p ELSE Cwd \o p

IsPrefix(b, p) == Len(b) <= Len(p) /\ \A i \in 1..Len(b) : p[i] = b[i]

\* Path.relative_to: the path with the base stripped; <<"ValueError">> stands for
\* the exception raised when base is no prefix.
relative_to(p, b) ==
    IF IsPrefix(b, p) THEN SubSeq(p, Len(b) + 1, Len(p)) ELSE <<"ValueError">>

(***************************************************************************)
(* File names as character sequences, for the patterns of                  *)
(* collect_test_files.                                                     *)
(***************************************************************************)
Chars(name) ==
    CASE name = "test_foo.py"   -> <<"t","e","s","t","_","f","o","o",".","p","y">>
      [] name = "test_a.py"     -> <<"t","e","s","t","_","a",".","p","y">>
      [] name = "test_bad.py"   -> <<"t","e","s","t","_","b","a","d",".","p","y">>
      [] name = "test_empty.py" -> <<"t","e","s","t","_","e","m","p","t","y",".","p","y">>
      [] name = "b_test.py"     -> <<"b","_","t","e","s","t",".","p","y">>
      [] name = "conftest.py"   -> <<"c","o","n","f","t","e","s","t",".","p","y">>
      [] name = "README.md"     -> <<"R","E","A","D","M","E",".","m","d">>
      [] name = "test_a.pyc"    -> <<"t","e","s","t","_","a",".","p","y","c">>
      [] name = "foo_test.py.bak" ->
             <<"f","o","o","_","t","e","s","t",".","p","y",".","b","a","k">>
      [] name = "Test_a.py"     -> <<"T","e","s","t","_","a",".","p","y">>
      [] OTHER                  -> <<>>

\* the literal lit occurs in cs at position i
HasAt(cs, i, lit) ==
    /\ i + Len(lit) - 1 <= Len(cs)
    /\ \A k \in 1..Len(lit) : cs[i + k - 1] = lit[k]

\* re.match(r".*_test\.py", file): anchored at the start only
MatchSuffixPattern(cs) ==
    \E i \in 1..Len(cs) : HasAt(cs, i, <<"_","t","e","s","t",".","p","y">>)

\* re.match(r"test_.*\.py", file): anchored at the start only
MatchPrefixPattern(cs) ==
    /\ HasAt(cs, 1, <<"t","e","s","t","_">>)
    /\ \E j \in 6..Len(cs) : HasAt(cs, j, <<".","p","y">>)

IsTestFileName(name) ==
    MatchSuffixPattern(Chars(name)) \/ MatchPrefixPattern(Chars(name))

(***************************************************************************)
(* Source trees: the files of a repository in os.walk order.  A file has   *)
(* its path below the tree's root, whether it parses, and the qualified    *)
(* names of the functions the classifier accepts in it, in node order.     *)
(***************************************************************************)
File(rel, parses, tests) == [rel |-> rel, parses |-> parses, tests |-> tests]

TreeOne ==
    << File(<<"test_foo.py">>, TRUE, <<"test_x">>) >>

TreeTwo ==
    << File(<<"README.md">>, TRUE, <<>>),
       File(<<"pkg", "b_test.py">>, TRUE, <<"test_b">>),
       File(<<"tests", "test_bad.py">>, FALSE, <<>>),
       File(<<"tests", "test_a.py">>, TRUE, <<"TestA.test_m", "test_n">>) >>

TreeNone ==
    << File(<<"conftest.py">>, TRUE, <<"test_conf">>),
       File(<<"test_empty.py">>, TRUE, <<>>) >>

\* names around the two patterns: compiled and backup files next to a test file
\* in a hidden directory, and a capitalised name
TreeNames ==
    << File(<<".venv", "test_foo.py">>, TRUE, <<"test_x">>),
       File(<<"Test_a.py">>, TRUE, <<"test_u">>),
       File(<<"foo_test.py.bak">>, TRUE, <<"test_old">>),
       File(<<"test_a.pyc">>, FALSE, <<>>) >>

Trees == {TreeOne, TreeTwo, TreeNone, TreeNames}

Dir(tree)   == [kind |-> "dir", files |-> tree]
RegularFile == [kind |-> "file"]

(***************************************************************************)
(* Archives: a corrupt file (tarfile raises on it), or the top-level       *)
(* entries the archive extracts to.                                        *)
(***************************************************************************)
Corrupt        == [kind |-> "corrupt"]
Archive(es)    == [kind |-> "archive", entries |-> es]
DirEntry(n, t) == [isdir |-> TRUE, name |-> n, files |-> t]
FileEntry(n)   == [isdir |-> FALSE, name |-> n, files |-> <<>>]

ArOne        == Archive({DirEntry("name-main", TreeOne)})
ArTwo        == Archive({DirEntry("name-main", TreeTwo)})
ArNoTests    == Archive({DirEntry("name-main", TreeNone)})
ArEmpty      == Archive({})
ArFileOnly   == Archive({FileEntry("README.md")})
ArTwoDirs    == Archive({DirEntry("name-main", TreeOne), DirEntry("docs", TreeNone)})
ArDirAndFile == Archive({DirEntry("name-main", TreeOne), FileEntry("README.md")})

Archives == {Corrupt, ArOne, ArTwo, ArNoTests, ArEmpty, ArFileOnly, ArTwoDirs,
             ArDirAndFile}

(***************************************************************************)
(* The pure parts of collect_from_repo.                                    *)
(***************************************************************************)
\* collect_test_files(root): the paths of the files whose name matches
collect_test_files(root, tree) ==
    LET keep(f) == IsTestFileName(f.rel[Len(f.rel)])
        picked  == SelectSeq(tree, keep)
    IN  [i \in 1..Len(picked) |-> root \o picked[i].rel]

\* the file of the tree at module_path
FileAt(root, tree, module_path) ==
    CHOOSE f \in {tree[i] : i \in 1..Len(tree)} : root \o f.rel = module_path

\* dump_ast_func: "{module_path}::{qualified name}", kept as the pair of its parts
FuncId(module_path, qualname) == <<module_path, qualname>>

\* collect_test_funcs(module_path) for a file that parses
collect_test_funcs(f, module_path) ==
    [i \in 1..Len(f.tests) |-> FuncId(module_path, f.tests[i])]

\* lines 243-249: the identifier as written to the output file
OutputLine(func_id, repo_root) ==
    <<relative_to(abspath(func_id[1]), abspath(repo_root)), func_id[2]>>

OutFileOf(lines) == [kind |-> "file", lines |-> lines]

(***************************************************************************)
(* collect_from_repo, one action per step.                                 *)
(***************************************************************************)
StagingOf(es) == [kind |-> "dir", entries |-> es]

\* the skip test left out: every call reprocesses
ShouldSkipNever(out) == FALSE

\* line 145: os.path.exists(test_path)
ShouldSkip(out) == out.kind # "absent"

\* line 152: not os.path.exists(repo_path) or not os.path.isdir(repo_path)
TreeMissing(tree) == tree.kind = "absent" \/ tree.kind # "dir"

\* the cache test left out: every acquisition downloads
NeedsDownloadAlways(tb) == TRUE

\* line 160: not os.path.exists(tarball_path)
NeedsDownload(tb) == tb.kind = "absent"

\* lines 202-206: the directories among the entries of temp_dir
ExtractedDirs(es) == {e \in es : e.isdir}

\* the extracted_here test left out: cleanup removes whatever tree is there
NeedsCleanupAnyTree(eh, tree) == tree.kind # "absent"

\* line 255: extracted_here and os.path.exists(repo_path)
NeedsCleanup(eh, tree) == eh /\ tree.kind # "absent"

InitFleetIdle ==
    /\ mainPc = "off"
    /\ nrepos = 0
    /\ status_nfile_ntest = <<>>
    /\ filtered_results = <<>>
    /\ printedTimeout = -1
    /\ status = <<>>
    /\ nfile = <<>>
    /\ ntest = <<>>
    /\ status_counter = <<>>
    /\ printedProcessed = -1
    /\ printedTests = -1
    /\ printedFiles = -1

InitPoolIdle ==
    /\ repo_id_list = <<>>
    /\ nprocs = 0
    /\ nextTask = 1
    /\ worker = <<>>
    /\ poolResults = <<>>
    /\ outputs = {}

InitClassifyIdle ==
    /\ ast = <<>>
    /\ clsPc = "off"
    /\ funcNodes = <<>>
    /\ fidx = 1
    /\ kept = <<>>

InitRunAllIdle ==
    /\ raPc = "off"
    /\ raIdx = 1
    /\ repoDirs = <<>>
    /\ zipFiles = <<>>
    /\ tmp_repo_file = FALSE
    /\ success = "none"
    /\ successful_count = 0
    /\ failed_repos = <<>>
    /\ zipsAtStart = <<>>
    /\ dirsAtStart = <<>>
    /\ downloaded = {}
    /\ rmtreeFailed = {}

InitRunIdle ==
    /\ pc = "idle"
    /\ auto_download = TRUE
    /\ extracted_here = FALSE
    /\ all_files = <<>>
    /\ idx = 1
    /\ test_files = <<>>
    /\ test_funcs = <<>>
    /\ widx = 1
    /\ result = NoResult
    /\ pending = "none"
    /\ timerFired = FALSE
    /\ tempDir = Absent
    /\ runs = 0
    /\ fetches = 0
    /\ fetchesAtStart = 0
    /\ placedHere = FALSE
    /\ cleanupFailed = FALSE
    /\ extractedFrom = Absent
    /\ prevResult = NoResult

\* The file system before the first call: any combination of a local tree (or a
\* regular file in its place), a cached archive and an output file of an earlier
\* complete run.
Init ==
    /\ repoTree \in {Absent, RegularFile} \cup {Dir(t) : t \in Trees}
    /\ tarball \in {Absent} \cup Archives
    /\ outFile \in {Absent, OutFileOf(<< <<<<WrappedId, "test_foo.py">>, "test_x">> >>)}
    /\ treeAtStart = repoTree
    /\ tarAtStart = tarball
    /\ outAtStart = outFile
    /\ InitRunIdle
    /\ InitFleetIdle
    /\ InitPoolIdle
    /\ InitClassifyIdle
    /\ InitRunAllIdle

\* the call: collect_from_repo(repo_id, repo_root, test_root, auto_download=ad)
BeginRun ==
    /\ pc \in {"idle", "done"}
    /\ runs < MaxRuns
    /\ \E ad \in BOOLEAN : auto_download' = ad
    /\ pc' = "check_output"
    /\ extracted_here' = FALSE
    /\ all_files' = <<>>
    /\ idx' = 1
    /\ test_files' = <<>>
    /\ test_funcs' = <<>>
    /\ widx' = 1
    /\ result' = NoResult
    /\ pending' = "none"
    /\ timerFired' = FALSE
    /\ runs' = runs + 1
    /\ treeAtStart' = repoTree
    /\ tarAtStart' = tarball
    /\ outAtStart' = outFile
    /\ fetchesAtStart' = fetches
    /\ placedHere' = FALSE
    /\ cleanupFailed' = FALSE
    /\ extractedFrom' = Absent
    /\ prevResult' = result
    /\ tempDir' = Absent
    /\ UNCHANGED <<repoTree, tarball, outFile, fetches, fleetVars, extVars>>

\* return s, f, t before the try of line 220
ReturnEarly(s) ==
    /\ result' = Ret(s, 0, 0)
    /\ pc' = "done"

\* lines 143-146
CheckOutput ==
    /\ pc = "check_output"
    /\ IF ShouldSkip(outFile)
       THEN ReturnEarly(SKIPPED)
       ELSE pc' = "check_repo" /\ UNCHANGED result
    /\ UNCHANGED <<fsVars, auto_download, extracted_here, all_files, idx, test_files,
                   test_funcs, widx, pending, timerFired, histVars, fleetVars, extVars>>

\* the auto_download test left out: a missing tree is always acquired
CheckRepoIgnoresFlag ==
    /\ pc = "check_repo"
    /\ pc' = IF ~TreeMissing(repoTree) THEN "collect_files" ELSE "check_tarball"
    /\ UNCHANGED <<fsVars, auto_download, extracted_here, all_files, idx, test_files,
                   test_funcs, widx, result, pending, timerFired, histVars, fleetVars, extVars>>

\* lines 148-154
CheckRepo ==
    /\ pc = "check_repo"
    /\ IF ~TreeMissing(repoTree)
       THEN pc' = "collect_files" /\ UNCHANGED result
       ELSE IF ~auto_download
            THEN ReturnEarly(NOT_FOUND)
            ELSE pc' = "check_tarball" /\ UNCHANGED result
    /\ UNCHANGED <<fsVars, auto_download, extracted_here, all_files, idx, test_files,
                   test_funcs, widx, pending, timerFired, histVars, fleetVars, extVars>>

\* lines 157-160
CheckTarball ==
    /\ pc = "check_tarball"
    /\ pc' = IF NeedsDownload(tarball) THEN "download" ELSE "extract"
    /\ UNCHANGED <<fsVars, auto_download, extracted_here, all_files, idx, test_files,
                   test_funcs, widx, result, pending, timerFired, histVars, fleetVars, extVars>>

\* lines 162-179, download_repo returns status 0: the archive is at tarball_path
DownloadOk ==
    /\ pc = "download"
    /\ \E a \in Archives : tarball' = a
    /\ fetches' = fetches + 1
    /\ pc' = "extract"
    /\ UNCHANGED <<repoTree, outFile, tempDir, auto_download, extracted_here, all_files,
                   idx, test_files, test_funcs, widx, result, pending, timerFired,
                   runs, treeAtStart, tarAtStart, outAtStart, fetchesAtStart,
                   placedHere, cleanupFailed, extractedFrom, prevResult, fleetVars, extVars>>

\* lines 179-184: the except Exception of line 182 (or the status test of line
\* 179) ends the call; what download_repo left at tarball_path is nothing or a
\* truncated file
DownloadExcept ==
    /\ tarball' \in {Absent, Corrupt}
    /\ fetches' = fetches + 1
    /\ ReturnEarly(DOWNLOAD_FAILED)
    /\ UNCHANGED <<repoTree, outFile, tempDir, auto_download, extracted_here, all_files,
                   idx, test_files, test_funcs, widx, pending,
                   runs, treeAtStart, tarAtStart, outAtStart, fetchesAtStart,
                   placedHere, cleanupFailed, extractedFrom, prevResult, fleetVars, extVars>>

\* download_repo returns a non-zero status or raises
DownloadFails ==
    /\ pc = "download"
    /\ DownloadExcept
    /\ UNCHANGED timerFired

\* lines 187-199: open the archive and extract it to a fresh temporary directory;
\* a corrupt archive raises, which line 216 turns into EXTRACT_FAILED
Extract ==
    /\ pc = "extract"
    /\ extractedFrom' = tarball
    /\ IF tarball.kind = "corrupt"
       THEN ReturnEarly(EXTRACT_FAILED) /\ UNCHANGED tempDir
       ELSE /\ tempDir' = StagingOf(tarball.entries)
            /\ pc' = "list_dirs"
            /\ UNCHANGED result
    /\ UNCHANGED <<repoTree, tarball, outFile, auto_download, extracted_here, all_files,
                   idx, test_files, test_funcs, widx, pending, timerFired,
                   runs, fetches, treeAtStart, tarAtStart, outAtStart, fetchesAtStart,
                   placedHere, cleanupFailed, prevResult, fleetVars, extVars>>

\* lines 202-214: extracted_dirs[0] is the first directory in os.listdir order,
\* which is arbitrary; shutil.move onto a regular file raises (line 216)
ListAndMove ==
    /\ pc = "list_dirs"
    /\ IF ExtractedDirs(tempDir.entries) = {}
       THEN /\ ReturnEarly(EXTRACT_FAILED)
            /\ tempDir' = Absent
            /\ UNCHANGED <<repoTree, placedHere>>
       ELSE \E d \in ExtractedDirs(tempDir.entries) :
              IF repoTree.kind = "file"
              THEN /\ ReturnEarly(EXTRACT_FAILED)
                   /\ tempDir' = Absent
                   /\ UNCHANGED <<repoTree, placedHere>>
              ELSE /\ repoTree' = Dir(d.files)
                   /\ tempDir' = StagingOf(tempDir.entries \ {d})
                   /\ placedHere' = TRUE
                   /\ pc' = "mark"
                   /\ UNCHANGED result
    /\ UNCHANGED <<tarball, outFile, auto_download, extracted_here, all_files,
                   idx, test_files, test_funcs, widx, pending, timerFired,
                   runs, fetches, treeAtStart, tarAtStart, outAtStart, fetchesAtStart,
                   cleanupFailed, extractedFrom, prevResult, fleetVars, extVars>>

\* line 212
MarkExtracted ==
    /\ pc = "mark"
    /\ extracted_here' = TRUE
    /\ pc' = "exit_with"
    /\ UNCHANGED <<fsVars, auto_download, all_files, idx, test_files,
                   test_funcs, widx, result, pending, timerFired, histVars, fleetVars, extVars>>

\* leaving the with blocks of lines 193 and 191: the temporary directory is removed
ExitWith ==
    /\ pc = "exit_with"
    /\ tempDir' = Absent
    /\ pc' = "collect_files"
    /\ UNCHANGED <<repoTree, tarball, outFile, auto_download, extracted_here, all_files,
                   idx, test_files, test_funcs, widx, result, pending, timerFired,
                   histVars, fleetVars, extVars>>

\* lines 216-218: the except Exception of the extraction try ends the call;
\* leaving the with blocks removes the temporary directory
ExtractExcept ==
    /\ tempDir' = Absent
    /\ ReturnEarly(EXTRACT_FAILED)
    /\ UNCHANGED <<repoTree, tarball, outFile, auto_download, extracted_here, all_files,
                   idx, test_files, test_funcs, widx, pending, histVars, fleetVars, extVars>>

\* leaving the with blocks raises (the removal of the temporary directory hits
\* an OSError): line 216 catches it
ExitWithFails ==
    /\ pc = "exit_with"
    /\ ReturnEarly(EXTRACT_FAILED)
    /\ UNCHANGED <<fsVars, auto_download, extracted_here, all_files, idx, test_files,
                   test_funcs, widx, pending, timerFired, histVars, fleetVars, extVars>>

\* line 222
CollectFiles ==
    /\ pc = "collect_files"
    /\ all_files' = collect_test_files(RepoPath, repoTree.files)
    /\ test_files' = <<>>
    /\ test_funcs' = <<>>
    /\ idx' = 1
    /\ pc' = "collect_funcs"
    /\ UNCHANGED <<fsVars, auto_download, extracted_here, widx, result, pending,
                   timerFired, histVars, fleetVars, extVars>>

\* the except Exception of line 229 left out: a file that does not parse ends the
\* loop and the exception leaves the processing try
CollectFuncsStopsOnError ==
    /\ pc = "collect_funcs"
    /\ idx <= Len(all_files)
    /\ LET f     == all_files[idx]
           file  == FileAt(RepoPath, repoTree.files, f)
           funcs == IF file.parses THEN collect_test_funcs(file, f) ELSE <<>>
       IN  IF ~file.parses
           THEN /\ pending' = "error"
                /\ pc' = "cleanup"
                /\ UNCHANGED <<test_files, test_funcs, idx>>
           ELSE /\ IF Len(funcs) = 0
                   THEN UNCHANGED <<test_files, test_funcs>>
                   ELSE /\ test_files' = Append(test_files, f)
                        /\ test_funcs' = test_funcs \o funcs
                /\ idx' = idx + 1
                /\ UNCHANGED <<pc, pending>>
    /\ UNCHANGED <<fsVars, auto_download, extracted_here, all_files, widx, result,
                   timerFired, histVars, fleetVars, extVars>>

\* lines 224-234, one iteration: a file that does not parse raises, funcs = None
CollectFuncs ==
    /\ pc = "collect_funcs"
    /\ idx <= Len(all_files)
    /\ LET f     == all_files[idx]
           file  == FileAt(RepoPath, repoTree.files, f)
           funcs == IF file.parses THEN collect_test_funcs(file, f) ELSE <<>>
       IN  IF ~file.parses \/ Len(funcs) = 0
           THEN UNCHANGED <<test_files, test_funcs>>
           ELSE /\ test_files' = Append(test_files, f)
                /\ test_funcs' = test_funcs \o funcs
    /\ idx' = idx + 1
    /\ UNCHANGED <<fsVars, pc, auto_download, extracted_here, all_files, widx, result,
                   pending, timerFired, histVars, fleetVars, extVars>>

\* SUCCESS reported without the output file being written
DecideWithoutWrite ==
    /\ pc = "collect_funcs"
    /\ idx > Len(all_files)
    /\ result' = Ret(IF Len(test_funcs) = 0 THEN NO_TESTS_FOUND ELSE SUCCESS,
                     Len(test_files), Len(test_funcs))
    /\ pc' = "cleanup"
    /\ UNCHANGED <<fsVars, auto_download, extracted_here, all_files, idx, test_files,
                   test_funcs, widx, pending, timerFired, histVars, fleetVars, extVars>>

\* lines 236-241: no test, or open(test_path, "w") which creates the empty file
Decide ==
    /\ pc = "collect_funcs"
    /\ idx > Len(all_files)
    /\ IF Len(test_funcs) = 0
       THEN /\ result' = Ret(NO_TESTS_FOUND, Len(test_files), Len(test_funcs))
            /\ pc' = "cleanup"
            /\ UNCHANGED <<outFile, widx>>
       ELSE /\ outFile' = OutFileOf(<<>>)
            /\ widx' = 1
            /\ pc' = "write"
            /\ UNCHANGED result
    /\ UNCHANGED <<repoTree, tarball, tempDir, auto_download, extracted_here, all_files,
                   idx, test_files, test_funcs, pending, timerFired, histVars, fleetVars, extVars>>

\* lines 242-250, one iteration
WriteLine ==
    /\ pc = "write"
    /\ widx <= Len(test_funcs)
    /\ outFile' = OutFileOf(Append(outFile.lines, OutputLine(test_funcs[widx], RepoRoot)))
    /\ widx' = widx + 1
    /\ UNCHANGED <<repoTree, tarball, tempDir, pc, auto_download, extracted_here,
                   all_files, idx, test_files, test_funcs, result, pending, timerFired,
                   histVars, fleetVars, extVars>>

\* every candidate file counted as a contributing file
FinishWriteCountsAllFiles ==
    /\ pc = "write"
    /\ widx > Len(test_funcs)
    /\ result' = Ret(SUCCESS, Len(all_files), Len(test_funcs))
    /\ pc' = "cleanup"
    /\ UNCHANGED <<fsVars, auto_download, extracted_here, all_files, idx, test_files,
                   test_funcs, widx, pending, timerFired, histVars, fleetVars, extVars>>

\* line 251, after the with block has closed the file
FinishWrite ==
    /\ pc = "write"
    /\ widx > Len(test_funcs)
    /\ result' = Ret(SUCCESS, Len(test_files), Len(test_funcs))
    /\ pc' = "cleanup"
    /\ UNCHANGED <<fsVars, auto_download, extracted_here, all_files, idx, test_files,
                   test_funcs, widx, pending, timerFired, histVars, fleetVars, extVars>>

\* lines 220-253: an exception raised in the processing try is caught by nobody;
\* a with block of line 241 closes the file with the lines written so far, and
\* the exception leaves through the finally of line 253
ProcessRaises(exc) ==
    /\ pending' = exc
    /\ pc' = "cleanup"
    /\ UNCHANGED <<fsVars, auto_download, extracted_here, all_files, idx, test_files,
                   test_funcs, widx, result, histVars, fleetVars, extVars>>

\* lines 241-250: a write raises OSError (disk full)
WriteFails ==
    /\ pc = "write"
    /\ widx <= Len(test_funcs)
    /\ ProcessRaises("error")
    /\ UNCHANGED timerFired

\* what an rmtree that stopped part-way leaves at repo_path
RmtreeLeftovers(tree) == {tree, Dir(<<>>)}

\* lines 253-257, shutil.rmtree completes (or there is nothing to remove)
Cleanup ==
    /\ pc = "cleanup"
    /\ repoTree' = IF NeedsCleanup(extracted_here, repoTree) THEN Absent ELSE repoTree
    /\ pc' = "return"
    /\ UNCHANGED <<tarball, outFile, tempDir, auto_download, extracted_here, all_files,
                   idx, test_files, test_funcs, widx, result, pending, timerFired,
                   histVars, fleetVars, extVars>>

\* lines 256-259: shutil.rmtree raises and the except Exception of line 258
\* prints a warning
CleanupExcept ==
    /\ NeedsCleanup(extracted_here, repoTree)
    /\ repoTree' \in RmtreeLeftovers(repoTree)
    /\ cleanupFailed' = TRUE
    /\ pc' = "return"
    /\ UNCHANGED <<tarball, outFile, tempDir, auto_download, extracted_here, all_files,
                   idx, test_files, test_funcs, widx, result, pending,
                   runs, fetches, treeAtStart, tarAtStart, outAtStart, fetchesAtStart,
                   placedHere, extractedFrom, prevResult, fleetVars, extVars>>

\* shutil.rmtree fails with an OSError
CleanupFails ==
    /\ pc = "cleanup"
    /\ CleanupExcept
    /\ UNCHANGED timerFired

\* line 261, or the exception leaving the function: run_with_timeout turns the
\* TimeoutException into None
Return ==
    /\ pc = "return"
    /\ result' = CASE pending = "timeout" -> NoneResult
                   [] pending = "error"   -> Raised
                   [] OTHER               -> result
    /\ pc' = "done"
    /\ UNCHANGED <<fsVars, auto_download, extracted_here, all_files, idx, test_files,
                   test_funcs, widx, pending, timerFired, histVars, fleetVars, extVars>>

(***************************************************************************)
(* The per-repository timer: TimeoutException is raised inside the call,   *)
(* at whatever statement is running.  Where it lands decides who catches   *)
(* it: the except Exception of lines 182, 216 and 258, or nobody (the try  *)
(* of line 220 has only a finally; line 227 re-raises).                    *)
(***************************************************************************)
InDownloadTry == {"download"}
InExtractTry  == {"extract", "list_dirs", "mark", "exit_with"}
InProcessTry  == {"collect_files", "collect_funcs", "write"}

TimerFires ==
    /\ ~timerFired
    /\ timerFired' = TRUE
    /\ \/ pc \in InDownloadTry /\ DownloadExcept
       \/ pc \in InExtractTry /\ ExtractExcept
       \/ pc \in InProcessTry /\ ProcessRaises("timeout")
       \/ pc = "cleanup" /\ CleanupExcept

Next ==
    \/ BeginRun
    \/ CheckOutput
    \/ CheckRepo
    \/ CheckTarball
    \/ DownloadOk
    \/ DownloadFails
    \/ Extract
    \/ ListAndMove
    \/ MarkExtracted
    \/ ExitWith
    \/ ExitWithFails
    \/ CollectFiles
    \/ CollectFuncs
    \/ Decide
    \/ WriteLine
    \/ FinishWrite
    \/ WriteFails
    \/ Cleanup
    \/ CleanupFails
    \/ Return
    \/ TimerFires

Spec == Init /\ [][Next]_vars

(***************************************************************************)
(* main of collect_test.py: the aggregation of the results of              *)
(* mp_map_repos, one per repository of the list, None for a repository     *)
(* that timed out.                                                         *)
(***************************************************************************)
StatusCodes == {SUCCESS, NOT_FOUND, NO_TESTS_FOUND, SKIPPED, DOWNLOAD_FAILED,
                EXTRACT_FAILED}

\* what one call of collect_from_repo hands to mp_map_repos
FleetOutcomes ==
    {Ret(SUCCESS, 1, 1), Ret(SUCCESS, 2, 3), Ret(NOT_FOUND, 0, 0),
     Ret(NO_TESTS_FOUND, 0, 0), Ret(SKIPPED, 0, 0), Ret(DOWNLOAD_FAILED, 0, 0),
     Ret(EXTRACT_FAILED, 0, 0), NoneResult}

IsNotNone(r) == r # NoneResult

\* line 293
FilterResults(all) == SelectSeq(all, IsNotNone)

\* the length of the whole list printed as the number of timeouts
TimedOutCountAll(all, filtered) == Len(all)

\* line 295
TimedOutCount(all, filtered) == Len(all) - Len(filtered)

\* Counter(status); a missing key reads as 0
CounterOf(st) ==
    [s \in StatusCodes |-> Cardinality({i \in DOMAIN st : st[i] = s})]

RECURSIVE sum(_)
sum(seq) == IF seq = <<>> THEN 0 ELSE Head(seq) + sum(Tail(seq))

\* sum(status_counter.values())
SumValues(counter) ==
    LET keys == {s \in DOMAIN counter : counter[s] > 0}
        RECURSIVE total(_)
        total(ks) == IF ks = {} THEN 0
                     ELSE LET k == CHOOSE x \in ks : TRUE
                          IN  counter[k] + total(ks \ {k})
    IN  total(keys)

InitFleet ==
    /\ repoTree = Absent
    /\ tarball = Absent
    /\ outFile = Absent
    /\ treeAtStart = Absent
    /\ tarAtStart = Absent
    /\ outAtStart = Absent
    /\ InitRunIdle
    /\ InitPoolIdle
    /\ InitClassifyIdle
    /\ InitRunAllIdle
    /\ mainPc = "map"
    /\ nrepos \in 0..MaxRepos
    /\ status_nfile_ntest = <<>>
    /\ filtered_results = <<>>
    /\ printedTimeout = -1
    /\ status = <<>>
    /\ nfile = <<>>
    /\ ntest = <<>>
    /\ status_counter = <<>>
    /\ printedProcessed = -1
    /\ printedTests = -1
    /\ printedFiles = -1

\* lines 283-291: mp_map_repos delivers the result of one more repository
MapRepo ==
    /\ mainPc = "map"
    /\ Len(status_nfile_ntest) < nrepos
    /\ \E o \in FleetOutcomes : status_nfile_ntest' = Append(status_nfile_ntest, o)
    /\ UNCHANGED <<fsVars, runVars, histVars, extVars, mainPc, nrepos, filtered_results,
                   printedTimeout, status, nfile, ntest, status_counter,
                   printedProcessed, printedTests, printedFiles>>

\* line 293
MainFilter ==
    /\ mainPc = "map"
    /\ Len(status_nfile_ntest) = nrepos
    /\ filtered_results' = FilterResults(status_nfile_ntest)
    /\ mainPc' = "report_timeout"
    /\ UNCHANGED <<fsVars, runVars, histVars, extVars, nrepos, status_nfile_ntest,
                   printedTimeout, status, nfile, ntest, status_counter,
                   printedProcessed, printedTests, printedFiles>>

\* lines 294-295
MainReportTimeout ==
    /\ mainPc = "report_timeout"
    /\ printedTimeout' =
           IF Len(filtered_results) < Len(status_nfile_ntest)
           THEN TimedOutCount(status_nfile_ntest, filtered_results)
           ELSE printedTimeout
    /\ mainPc' = "zip"
    /\ UNCHANGED <<fsVars, runVars, histVars, extVars, nrepos, status_nfile_ntest,
                   filtered_results, status, nfile, ntest, status_counter,
                   printedProcessed, printedTests, printedFiles>>

\* line 296: zip(*filtered_results) of no result yields nothing, and unpacking
\* nothing into three names raises ValueError
MainZip ==
    /\ mainPc = "zip"
    /\ IF Len(filtered_results) = 0
       THEN /\ mainPc' = "raised"
            /\ UNCHANGED <<status, nfile, ntest>>
       ELSE /\ status' = [i \in DOMAIN filtered_results |-> filtered_results[i].status]
            /\ nfile'  = [i \in DOMAIN filtered_results |-> filtered_results[i].nfile]
            /\ ntest'  = [i \in DOMAIN filtered_results |-> filtered_results[i].ntest]
            /\ mainPc' = "count"
    /\ UNCHANGED <<fsVars, runVars, histVars, extVars, nrepos, status_nfile_ntest,
                   filtered_results, printedTimeout, status_counter,
                   printedProcessed, printedTests, printedFiles>>

\* lines 297-302
MainCount ==
    /\ mainPc = "count"
    /\ status_counter' = CounterOf(status)
    /\ printedProcessed' = SumValues(CounterOf(status))
    /\ mainPc' = "totals"
    /\ UNCHANGED <<fsVars, runVars, histVars, extVars, nrepos, status_nfile_ntest,
                   filtered_results, printedTimeout, status, nfile, ntest,
                   printedTests, printedFiles>>

\* line 303
MainTotals ==
    /\ mainPc = "totals"
    /\ printedTests' = sum(ntest)
    /\ printedFiles' = sum(nfile)
    /\ mainPc' = "done"
    /\ UNCHANGED <<fsVars, runVars, histVars, extVars, nrepos, status_nfile_ntest,
                   filtered_results, printedTimeout, status, nfile, ntest,
                   status_counter, printedProcessed>>

NextFleet ==
    \/ MapRepo
    \/ MainFilter
    \/ MainReportTimeout
    \/ MainZip
    \/ MainCount
    \/ MainTotals

SpecFleet == InitFleet /\ [][NextFleet]_vars

(***************************************************************************)
(* The worker pool: main hands repo_id_list, as loaded, to mp_map_repos,    *)
(* which runs collect_from_repo for each entry on nprocs workers.           *)
(***************************************************************************)
\* repository identifiers, owner/name, as character strings
IdABC == <<"a", "/", "b", "-", "c">>
IdACB == <<"a", "-", "b", "/", "c">>
IdDE  == <<"d", "/", "e">>
RepoIds == {IdABC, IdACB, IdDE}

\* the sanitized name of an identifier: the path separator replaced by a dash
wrap_repo(repo_id) ==
    [i \in 1..Len(repo_id) |-> IF repo_id[i] = "/" THEN "-" ELSE repo_id[i]]

\* nprocs 0 and 1 both run the list on a single worker
Workers(n) == 1..(IF n = 0 THEN 1 ELSE n)

IdleWorker == [task |-> 0, at |-> "idle"]

\* what a task that ran its processing hands back; None when it timed out
TaskOutcomes == {Ret(SUCCESS, 1, 1), Ret(NO_TESTS_FOUND, 0, 0), NoneResult}

\* lines 275-291: the list is every line of the file (or the single identifier),
\* cut to limits, and is passed on as it is
InitPool ==
    /\ repoTree = Absent
    /\ tarball = Absent
    /\ outFile = Absent
    /\ treeAtStart = Absent
    /\ tarAtStart = Absent
    /\ outAtStart = Absent
    /\ InitRunIdle
    /\ InitFleetIdle
    /\ InitClassifyIdle
    /\ InitRunAllIdle
    /\ repo_id_list \in UNION {[1..n -> RepoIds] : n \in 0..MaxRepos}
    /\ nprocs \in 0..MaxProcs
    /\ nextTask = 1
    /\ worker = [w \in Workers(nprocs) |-> IdleWorker]
    /\ poolResults = [i \in 1..Len(repo_id_list) |-> NoResult]
    /\ outputs = {}

\* an idle worker takes the next entry of the list
PoolAssign(w) ==
    /\ worker[w].at = "idle"
    /\ nextTask <= Len(repo_id_list)
    /\ worker' = [worker EXCEPT ![w] = [task |-> nextTask, at |-> "check_output"]]
    /\ nextTask' = nextTask + 1
    /\ UNCHANGED <<fsVars, runVars, histVars, fleetVars, clsVars, raVars, repo_id_list, nprocs,
                   poolResults, outputs>>

\* lines 143-146 of the task: an existing output file ends it with SKIPPED
TaskCheckOutput(w) ==
    /\ worker[w].at = "check_output"
    /\ IF wrap_repo(repo_id_list[worker[w].task]) \in outputs
       THEN /\ poolResults' = [poolResults EXCEPT ![worker[w].task] = Ret(SKIPPED, 0, 0)]
            /\ worker' = [worker EXCEPT ![w] = IdleWorker]
       ELSE /\ worker' = [worker EXCEPT ![w].at = "work"]
            /\ UNCHANGED poolResults
    /\ UNCHANGED <<fsVars, runVars, histVars, fleetVars, clsVars, raVars, repo_id_list, nprocs,
                   nextTask, outputs>>

\* lines 148-261 of the task: acquisition, processing, the output file written on
\* SUCCESS, cleanup
TaskWork(w) ==
    /\ worker[w].at = "work"
    /\ \E r \in TaskOutcomes :
          /\ poolResults' = [poolResults EXCEPT ![worker[w].task] = r]
          /\ outputs' = IF r = Ret(SUCCESS, 1, 1)
                        THEN outputs \cup {wrap_repo(repo_id_list[worker[w].task])}
                        ELSE outputs
    /\ worker' = [worker EXCEPT ![w] = IdleWorker]
    /\ UNCHANGED <<fsVars, runVars, histVars, fleetVars, clsVars, raVars, repo_id_list, nprocs,
                   nextTask>>

NextPool ==
    \/ \E w \in DOMAIN worker : PoolAssign(w)
    \/ \E w \in DOMAIN worker : TaskCheckOutput(w)
    \/ \E w \in DOMAIN worker : TaskWork(w)

SpecPool == InitPool /\ [][NextPool]_vars

(***************************************************************************)
(* collect_test_funcs (lines 39-131) on the syntax tree of one module.      *)
(* The tree is the sequence of its nodes in document order; a node names    *)
(* its parent by position (0 is the Module node) and the field of the       *)
(* parent it sits in (body or decorator_list).                              *)
(***************************************************************************)
\* the characters of the names that occur in the modules below
Letters(name) ==
    CASE name = "test"         -> <<"t","e","s","t">>
      [] name = "Test"         -> <<"T","e","s","t">>
      [] name = "assert"       -> <<"a","s","s","e","r","t">>
      [] name = "test_x"       -> <<"t","e","s","t","_","x">>
      [] name = "testing"      -> <<"t","e","s","t","i","n","g">>
      [] name = "Test_x"       -> <<"T","e","s","t","_","x">>
      [] name = "helper"       -> <<"h","e","l","p","e","r">>
      [] name = "__init__"     -> <<"_","_","i","n","i","t","_","_">>
      [] name = "TestA"        -> <<"T","e","s","t","A">>
      [] name = "testB"        -> <<"t","e","s","t","B">>
      [] name = "Helper"       -> <<"H","e","l","p","e","r">>
      [] name = "TestCase"     -> <<"T","e","s","t","C","a","s","e">>
      [] name = "Base"         -> <<"B","a","s","e">>
      [] name = "assertEqual"  -> <<"a","s","s","e","r","t","E","q","u","a","l">>
      [] name = "assert_ok"    -> <<"a","s","s","e","r","t","_","o","k">>
      [] name = "myassert"     -> <<"m","y","a","s","s","e","r","t">>
      [] name = "raises"       -> <<"r","a","i","s","e","s">>
      [] name = "fail"         -> <<"f","a","i","l">>
      [] name = "ok_"          -> <<"o","k","_">>
      [] name = "print"        -> <<"p","r","i","n","t">>
      [] name = "staticmethod" -> <<"s","t","a","t","i","c","m","e","t","h","o","d">>
      [] name = "classmethod"  -> <<"c","l","a","s","s","m","e","t","h","o","d">>
      [] name = "classmethods" -> <<"c","l","a","s","s","m","e","t","h","o","d","s">>
      [] name = "wraps"        -> <<"w","r","a","p","s">>
      [] OTHER                 -> <<>>

\* str.startswith
startswith(name, prefix) ==
    /\ Len(Letters(prefix)) <= Len(Letters(name))
    /\ SubSeq(Letters(name), 1, Len(Letters(prefix))) = Letters(prefix)

\* an expression used as callee, base or decorator: ast.Name (id), ast.Attribute
\* (attr), or anything else
NameExpr(id)        == [kind |-> "Name", name |-> id]
AttributeExpr(attr) == [kind |-> "Attribute", name |-> attr]
OtherExpr           == [kind |-> "Other", name |-> ""]

Node(kind, parent, slot, name, func, bases) ==
    [kind |-> kind, parent |-> parent, slot |-> slot, name |-> name,
     func |-> func, bases |-> bases]

ClassDefNode(parent, name, bases) == Node("ClassDef", parent, "body", name, OtherExpr, bases)
FunctionDefNode(parent, name)     == Node("FunctionDef", parent, "body", name, OtherExpr, <<>>)
AsyncFunctionDefNode(parent, name) ==
    Node("AsyncFunctionDef", parent, "body", name, OtherExpr, <<>>)
AssertNode(parent)                == Node("Assert", parent, "body", "", OtherExpr, <<>>)
IfNode(parent)                    == Node("If", parent, "body", "", OtherExpr, <<>>)
CallNode(parent, func)            == Node("Call", parent, "body", "", func, <<>>)
\* decorators: @id, @x.attr, @f(...)
NameDecorator(id)        == Node("Name", 0, "decorator", id, OtherExpr, <<>>)
AttributeDecorator(attr) == Node("Attribute", 0, "decorator", attr, OtherExpr, <<>>)
CallDecorator(func)      == Node("Call", 0, "decorator", "", func, <<>>)

\* the decorator lists a function of the modules below may carry
DecoratorLists ==
    { <<>>,
      <<NameDecorator("staticmethod")>>,
      <<NameDecorator("classmethod")>>,
      <<NameDecorator("classmethods")>>,
      <<AttributeDecorator("staticmethod")>>,
      <<CallDecorator(NameExpr("staticmethod"))>>,
      <<NameDecorator("wraps"), NameDecorator("staticmethod")>>,
      <<CallDecorator(NameExpr("raises"))>> }

\* the bodies a function of the modules below may have; parent 0 is the function
\* itself, parent k the k-th node of the body
Bodies ==
    { <<>>,
      <<AssertNode(0)>>,
      <<IfNode(0), AssertNode(1)>>,
      <<CallNode(0, AttributeExpr("assertEqual"))>>,
      <<IfNode(0), CallNode(1, NameExpr("assert_ok"))>>,
      <<CallNode(0, NameExpr("raises"))>>,
      <<CallNode(0, NameExpr("fail"))>>,
      <<CallNode(0, NameExpr("ok_"))>>,
      <<CallNode(0, AttributeExpr("raises"))>>,
      <<CallNode(0, AttributeExpr("fail"))>>,
      <<CallNode(0, AttributeExpr("myassert"))>>,
      <<CallNode(0, NameExpr("print"))>>,
      <<CallNode(0, OtherExpr)>> }

FunctionNames == {"test_x", "testing", "Test_x", "helper"}

\* a function definition: its name, decorator list and body
FunctionChoices ==
    [name : FunctionNames, decorators : DecoratorLists, body : Bodies]

\* a class definition: its name and bases
ClassChoices ==
    [name : {"TestA", "testB", "Helper"},
     bases : {<<>>, <<NameExpr("TestCase")>>, <<AttributeExpr("TestCase")>>,
              <<NameExpr("Base")>>, <<OtherExpr, NameExpr("Base")>>}]

\* the nodes of the function definition f placed at position self under parent
FunctionAt(self, parent, f) ==
    <<FunctionDefNode(parent, f.name)>>
    \o [i \in 1..Len(f.decorators) |-> [f.decorators[i] EXCEPT !.parent = self]]
    \o [i \in 1..Len(f.body) |->
          [f.body[i] EXCEPT !.parent = IF f.body[i].parent = 0
                                       THEN self
                                       ELSE self + Len(f.decorators) + f.body[i].parent]]

\* def f
ModuleFunc(f) == FunctionAt(1, 0, f)

\* class c: def f
ModuleClassFunc(c, f) == <<ClassDefNode(0, c.name, c.bases)>> \o FunctionAt(2, 1, f)

\* class c1: class c2: def f
ModuleClassClassFunc(c1, c2, f) ==
    <<ClassDefNode(0, c1.name, c1.bases), ClassDefNode(1, c2.name, c2.bases)>>
    \o FunctionAt(3, 2, f)

\* class c: def __init__; def f
ModuleClassInitFunc(c, f) ==
    <<ClassDefNode(0, c.name, c.bases), FunctionDefNode(1, "__init__")>>
    \o FunctionAt(3, 1, f)

\* class c: def f; class Helper: def __init__
ModuleClassFuncInner(c, f) ==
    LET n == 1 + Len(FunctionAt(2, 1, f))
    IN  <<ClassDefNode(0, c.name, c.bases)>> \o FunctionAt(2, 1, f)
        \o <<ClassDefNode(1, "Helper", <<>>), FunctionDefNode(n + 1, "__init__")>>

\* class c: def g: (def __init__); def f     (an __init__ local to a method)
ModuleClassLocalInit(c, f) ==
    <<ClassDefNode(0, c.name, c.bases), FunctionDefNode(1, "helper"),
      FunctionDefNode(2, "__init__")>>
    \o FunctionAt(4, 1, f)

\* def outer: def f
ModuleFuncFunc(outer, f) == <<FunctionDefNode(0, outer)>> \o FunctionAt(2, 1, f)

\* async def outer: assert; def f
ModuleAsyncFunc(outer, f) ==
    <<AsyncFunctionDefNode(0, outer), AssertNode(1)>> \o FunctionAt(3, 1, f)

\* the small choices used where the shape of the module is what matters
FewFunctions ==
    {f \in FunctionChoices :
        /\ f.name \in {"test_x", "helper"}
        /\ f.decorators \in {<<>>, <<NameDecorator("staticmethod")>>}
        /\ f.body \in {<<>>, <<AssertNode(0)>>}}

FewClasses ==
    {c \in ClassChoices : c.bases \in {<<>>, <<NameExpr("TestCase")>>}}

Modules ==
    {ModuleFunc(f) : f \in FunctionChoices}
    \cup {ModuleClassFunc(c, f) : c \in ClassChoices, f \in FunctionChoices}
    \cup {ModuleClassClassFunc(c1, c2, f) : c1 \in FewClasses, c2 \in FewClasses,
                                             f \in FewFunctions}
    \cup {ModuleClassInitFunc(c, f) : c \in FewClasses, f \in FewFunctions}
    \cup {ModuleClassFuncInner(c, f) : c \in FewClasses, f \in FewFunctions}
    \cup {ModuleClassLocalInit(c, f) : c \in FewClasses, f \in FewFunctions}
    \cup {ModuleFuncFunc(outer, f) : outer \in {"test_x", "helper"}, f \in FewFunctions}
    \cup {ModuleAsyncFunc(outer, f) : outer \in {"test_x"}, f \in FewFunctions}

RECURSIVE get_path_to(_, _)
\* nav.get_path_to(node): the ancestors of node below the Module node, outermost
\* first, node itself left out
get_path_to(t, n) ==
    IF t[n].parent = 0 THEN <<>> ELSE Append(get_path_to(t, t[n].parent), t[n].parent)

\* the positions held by a sequence
Range(q) == {q[i] : i \in 1..Len(q)}

\* nav.find_all(kind, root): the nodes of the kind that are root or below it, in
\* document order; root 0 is the whole module
find_all(t, kind, root) ==
    SelectSeq([i \in 1..Len(t) |-> i],
              LAMBDA n : /\ t[n].kind = kind
                         /\ (root = 0 \/ n = root \/ root \in Range(get_path_to(t, n))))

\* func.decorator_list
decorator_list(t, func) ==
    SelectSeq([i \in 1..Len(t) |-> i],
              LAMBDA n : t[n].parent = func /\ t[n].slot = "decorator")

\* lines 45-70
is_test_cls(t, node) ==
    IF t[node].kind # "ClassDef" THEN FALSE
    ELSE LET test_prefix == startswith(t[node].name, "Test")
             inherit_unittest_attr ==
                 \E b \in 1..Len(t[node].bases) :
                     t[node].bases[b].kind = "Attribute" /\ t[node].bases[b].name = "TestCase"
             inherit_unittest_name ==
                 \E b \in 1..Len(t[node].bases) :
                     t[node].bases[b].kind = "Name" /\ t[node].bases[b].name = "TestCase"
             cls_funcs == find_all(t, "FunctionDef", node)
         IN  IF ~(test_prefix \/ inherit_unittest_name \/ inherit_unittest_attr)
             THEN FALSE
             ELSE ~\E k \in 1..Len(cls_funcs) : t[cls_funcs[k]].name = "__init__"

\* only the built-in assert statement taken as evidence
has_assert_statement_only(t, func) == Len(find_all(t, "Assert", func)) > 0

\* lines 72-92
has_assert(t, func) ==
    IF Len(find_all(t, "Assert", func)) > 0 THEN TRUE
    ELSE LET calls == find_all(t, "Call", func)
         IN  \E k \in 1..Len(calls) :
                 LET call == t[calls[k]]
                 IN  IF call.func.kind = "Attribute"
                     THEN startswith(call.func.name, "assert")
                     ELSE /\ call.func.kind = "Name"
                          /\ \/ startswith(call.func.name, "assert")
                             \/ call.func.name \in {"raises", "fail", "ok_"}

\* every function outside a class taken as a test, whatever its name
is_test_outside_cls_any_name(t, func) == TRUE

\* lines 94-98
is_test_outside_cls(t, func) == startswith(t[func].name, "test")

\* the decorator test widened to classmethod and to attribute-qualified names
is_test_inside_cls_any_decorator(t, func, path) ==
    LET cls_path == SelectSeq(path, LAMBDA n : is_test_cls(t, n))
        decorators == decorator_list(t, func)
    IN  IF Len(cls_path) = 0 THEN FALSE
        ELSE IF startswith(t[func].name, "test") THEN TRUE
        ELSE \E k \in 1..Len(decorators) :
                 t[decorators[k]].name \in {"staticmethod", "classmethod", "classmethods"}

\* lines 100-116
is_test_inside_cls(t, func, path) ==
    LET cls_path == SelectSeq(path, LAMBDA n : is_test_cls(t, n))
        decorators == decorator_list(t, func)
    IN  IF Len(cls_path) = 0 THEN FALSE
        ELSE IF startswith(t[func].name, "test") THEN TRUE
        ELSE \E k \in 1..Len(decorators) :
                 /\ t[decorators[k]].kind = "Name"
                 /\ t[decorators[k]].name \in {"staticmethod", "classmethods"}

\* dump_ast_func: the names of the enclosing classes and the function's name
QualName(t, func, path) ==
    LET classes == SelectSeq(path, LAMBDA n : t[n].kind = "ClassDef")
    IN  Append([k \in 1..Len(classes) |-> t[classes[k]].name], t[func].name)

\* lines 120-126: the verdict on one function
is_test(t, func) ==
    LET path   == get_path_to(t, func)
        is_cls == \E k \in 1..Len(path) : t[path[k]].kind = "ClassDef"
    IN  /\ \/ is_cls /\ is_test_inside_cls(t, func, path)
           \/ ~is_cls /\ is_test_outside_cls(t, func)
        /\ has_assert(t, func)

\* the module handed to collect_test_funcs, parsed
InitClassify ==
    /\ repoTree = Absent
    /\ tarball = Absent
    /\ outFile = Absent
    /\ treeAtStart = Absent
    /\ tarAtStart = Absent
    /\ outAtStart = Absent
    /\ InitRunIdle
    /\ InitFleetIdle
    /\ InitPoolIdle
    /\ InitRunAllIdle
    /\ ast \in Modules
    /\ clsPc = "find_all"
    /\ funcNodes = <<>>
    /\ fidx = 1
    /\ kept = <<>>

\* line 42
FindFuncs ==
    /\ clsPc = "find_all"
    /\ funcNodes' = find_all(ast, "FunctionDef", 0)
    /\ clsPc' = "loop"
    /\ UNCHANGED <<fsVars, runVars, histVars, fleetVars, poolVars, raVars, ast, fidx, kept>>

\* lines 119-129, one iteration
ClassifyFunc ==
    /\ clsPc = "loop"
    /\ fidx <= Len(funcNodes)
    /\ LET func == funcNodes[fidx]
       IN  kept' = IF is_test(ast, func)
                   THEN Append(kept, [node |-> func,
                                      id |-> QualName(ast, func, get_path_to(ast, func))])
                   ELSE kept
    /\ fidx' = fidx + 1
    /\ UNCHANGED <<fsVars, runVars, histVars, fleetVars, poolVars, raVars, ast, clsPc, funcNodes>>

\* line 131
ReturnFuncs ==
    /\ clsPc = "loop"
    /\ fidx > Len(funcNodes)
    /\ clsPc' = "done"
    /\ UNCHANGED <<fsVars, runVars, histVars, fleetVars, poolVars, raVars, ast, funcNodes, fidx,
                   kept>>

NextClassify ==
    \/ FindFuncs
    \/ ClassifyFunc
    \/ ReturnFuncs

SpecClassify == InitClassify /\ [][NextClassify]_vars

(***************************************************************************)
(* run_all.py: process_repositories runs process_single_repository for     *)
(* each repository of its list, one after the other.  A repository is      *)
(* named by its position in the list; the identifiers are distinct.        *)
(***************************************************************************)
\* what can be at repo_path
DirStates == {"absent", "dir", "file"}

\* what can be at zip_path: nothing, a ZIP with a top-level directory, a ZIP
\* without one, bytes that are no ZIP, or the chunks written by a download that
\* stopped part-way
ZipStates == {"absent", "zip", "nodirs", "corrupt", "partial"}

\* what earlier complete downloads have left at zip_path
CachedZipStates == ZipStates \ {"partial"}

\* lines 254-266: the list, cut to limits; the directories are made; what earlier
\* runs left behind is a cached ZIP or a tree
InitRunAll ==
    /\ repoTree = Absent
    /\ tarball = Absent
    /\ outFile = Absent
    /\ treeAtStart = Absent
    /\ tarAtStart = Absent
    /\ outAtStart = Absent
    /\ InitRunIdle
    /\ InitFleetIdle
    /\ InitPoolIdle
    /\ InitClassifyIdle
    /\ raPc = "loop"
    /\ raIdx = 1
    /\ \E n \in 1..MaxBatch :
          /\ repoDirs \in [1..n -> DirStates]
          /\ zipFiles \in [1..n -> CachedZipStates]
    /\ zipsAtStart = zipFiles
    /\ dirsAtStart = repoDirs
    /\ tmp_repo_file = FALSE
    /\ success = "none"
    /\ successful_count = 0
    /\ failed_repos = <<>>
    /\ downloaded = {}
    /\ rmtreeFailed = {}

\* lines 269-283 and 165-167: the call for the next repository of the list
RaCall ==
    /\ raPc = "loop"
    /\ raIdx <= Len(repoDirs)
    /\ success' = "none"
    /\ raPc' = "check_zip"
    /\ UNCHANGED <<fsVars, runVars, histVars, fleetVars, poolVars, clsVars, raIdx,
                   repoDirs, zipFiles, tmp_repo_file, successful_count, failed_repos,
                   zipsAtStart, dirsAtStart, downloaded, rmtreeFailed>>

\* lines 170 and 174-175
RaCheckZip ==
    /\ raPc = "check_zip"
    /\ raPc' = IF zipFiles[raIdx] = "absent" THEN "download" ELSE "extract"
    /\ UNCHANGED <<fsVars, runVars, histVars, fleetVars, poolVars, clsVars, raIdx,
                   repoDirs, zipFiles, tmp_repo_file, success, successful_count,
                   failed_repos, zipsAtStart, dirsAtStart, downloaded, rmtreeFailed>>

\* line 171, download_repo_zip (lines 41-76) returns True: status 200 for main or
\* master and every chunk written to zip_path, whatever the bytes are
RaDownloadOk ==
    /\ raPc = "download"
    /\ \E z \in {"zip", "nodirs", "corrupt"} :
          zipFiles' = [zipFiles EXCEPT ![raIdx] = z]
    /\ downloaded' = downloaded \cup {raIdx}
    /\ raPc' = "extract"
    /\ UNCHANGED <<fsVars, runVars, histVars, fleetVars, poolVars, clsVars, raIdx,
                   repoDirs, tmp_repo_file, success, successful_count, failed_repos,
                   zipsAtStart, dirsAtStart, rmtreeFailed>>

\* lines 171-173, download_repo_zip returns False (lines 77-91): another status,
\* a timeout or an exception, which may come while the chunks are written
RaDownloadFails ==
    /\ raPc = "download"
    /\ \E z \in {"absent", "partial"} :
          zipFiles' = [zipFiles EXCEPT ![raIdx] = z]
    /\ success' = "False"
    /\ raPc' = "cleanup"
    /\ UNCHANGED <<fsVars, runVars, histVars, fleetVars, poolVars, clsVars, raIdx,
                   repoDirs, tmp_repo_file, successful_count, failed_repos,
                   zipsAtStart, dirsAtStart, downloaded, rmtreeFailed>>

\* line 177, extract_repo_zip (lines 94-130) returns True: the first extracted
\* directory is moved to repo_path, or into the directory already there
RaExtractOk ==
    /\ raPc = "extract"
    /\ zipFiles[raIdx] = "zip"
    /\ repoDirs[raIdx] # "file"
    /\ repoDirs' = [repoDirs EXCEPT ![raIdx] = "dir"]
    /\ raPc' = "tmp_file"
    /\ UNCHANGED <<fsVars, runVars, histVars, fleetVars, poolVars, clsVars, raIdx,
                   zipFiles, tmp_repo_file, success, successful_count, failed_repos,
                   zipsAtStart, dirsAtStart, downloaded, rmtreeFailed>>

\* lines 177-179, extract_repo_zip returns False (lines 131-137): no ZIP, no
\* directory in it, or extractall or shutil.move raised; a move that copies
\* may have left part of the tree at repo_path
RaExtractFails ==
    /\ raPc = "extract"
    /\ \E d \in {repoDirs[raIdx]} \cup
                (IF zipFiles[raIdx] = "zip" /\ repoDirs[raIdx] = "absent"
                 THEN {"dir"} ELSE {}) :
          repoDirs' = [repoDirs EXCEPT ![raIdx] = d]
    /\ success' = "False"
    /\ raPc' = "cleanup"
    /\ UNCHANGED <<fsVars, runVars, histVars, fleetVars, poolVars, clsVars, raIdx,
                   zipFiles, tmp_repo_file, successful_count, failed_repos,
                   zipsAtStart, dirsAtStart, downloaded, rmtreeFailed>>

\* lines 182-186: the temporary list file is written
RaTmpFile ==
    /\ raPc = "tmp_file"
    /\ tmp_repo_file' = TRUE
    /\ raPc' = "collect_all"
    /\ UNCHANGED <<fsVars, runVars, histVars, fleetVars, poolVars, clsVars, raIdx,
                   repoDirs, zipFiles, success, successful_count, failed_repos,
                   zipsAtStart, dirsAtStart, downloaded, rmtreeFailed>>

\* lines 182-186 raise (no space, no permission): the except of line 214; the
\* file, made with delete=False, stays when it was the write that raised
RaTmpFileFails ==
    /\ raPc = "tmp_file"
    /\ tmp_repo_file' \in {FALSE, TRUE}
    /\ success' = "False"
    /\ raPc' = "cleanup"
    /\ UNCHANGED <<fsVars, runVars, histVars, fleetVars, poolVars, clsVars, raIdx,
                   repoDirs, zipFiles, successful_count, failed_repos,
                   zipsAtStart, dirsAtStart, downloaded, rmtreeFailed>>

\* lines 188-216: collect_all.main returns (True), raises an Exception (the
\* except of line 214, False) or raises past it (SystemExit, KeyboardInterrupt);
\* the finally of line 205 unlinks the list file; the tree was there before
\* collect_all started, which therefore leaves it in place
RaCollectAll ==
    /\ raPc = "collect_all"
    /\ success' \in {"True", "False", "raised"}
    /\ tmp_repo_file' = FALSE
    /\ raPc' = "cleanup"
    /\ UNCHANGED <<fsVars, runVars, histVars, fleetVars, poolVars, clsVars, raIdx,
                   repoDirs, zipFiles, successful_count, failed_repos,
                   zipsAtStart, dirsAtStart, downloaded, rmtreeFailed>>

\* the tree removed only after a call that succeeded
RaCleanupOnlyOnSuccess ==
    /\ raPc = "cleanup"
    /\ repoDirs[raIdx] # "file"
    /\ repoDirs' = IF success = "True"
                   THEN [repoDirs EXCEPT ![raIdx] = "absent"]
                   ELSE repoDirs
    /\ raPc' = "returned"
    /\ UNCHANGED <<fsVars, runVars, histVars, fleetVars, poolVars, clsVars, raIdx,
                   zipFiles, tmp_repo_file, success, successful_count, failed_repos,
                   zipsAtStart, dirsAtStart, downloaded, rmtreeFailed>>

\* lines 218-223, the finally of every path: shutil.rmtree(repo_path) when
\* something is there
RaCleanup ==
    /\ raPc = "cleanup"
    /\ repoDirs[raIdx] # "file"
    /\ repoDirs' = [repoDirs EXCEPT ![raIdx] = "absent"]
    /\ raPc' = "returned"
    /\ UNCHANGED <<fsVars, runVars, histVars, fleetVars, poolVars, clsVars, raIdx,
                   zipFiles, tmp_repo_file, success, successful_count, failed_repos,
                   zipsAtStart, dirsAtStart, downloaded, rmtreeFailed>>

\* lines 221-224: shutil.rmtree raises (a regular file at repo_path, a file in
\* use or protected); the warning is printed and what is left stays
RaCleanupFails ==
    /\ raPc = "cleanup"
    /\ repoDirs[raIdx] # "absent"
    /\ rmtreeFailed' = rmtreeFailed \cup {raIdx}
    /\ raPc' = "returned"
    /\ UNCHANGED <<fsVars, runVars, histVars, fleetVars, poolVars, clsVars, raIdx,
                   repoDirs, zipFiles, tmp_repo_file, success, successful_count,
                   failed_repos, zipsAtStart, dirsAtStart, downloaded>>

\* lines 280-283; an exception that left the call leaves the loop too
RaCount ==
    /\ raPc = "returned"
    /\ IF success = "raised"
       THEN /\ raPc' = "raised"
            /\ UNCHANGED <<raIdx, successful_count, failed_repos>>
       ELSE /\ raPc' = "loop"
            /\ raIdx' = raIdx + 1
            /\ successful_count' = IF success = "True" THEN successful_count + 1
                                   ELSE successful_count
            /\ failed_repos' = IF success = "True" THEN failed_repos
                               ELSE Append(failed_repos, raIdx)
    /\ UNCHANGED <<fsVars, runVars, histVars, fleetVars, poolVars, clsVars,
                   repoDirs, zipFiles, tmp_repo_file, success,
                   zipsAtStart, dirsAtStart, downloaded, rmtreeFailed>>

\* lines 285-297: the summary
RaSummary ==
    /\ raPc = "loop"
    /\ raIdx > Len(repoDirs)
    /\ raPc' = "done"
    /\ UNCHANGED <<fsVars, runVars, histVars, fleetVars, poolVars, clsVars, raIdx,
                   repoDirs, zipFiles, tmp_repo_file, success, successful_count,
                   failed_repos, zipsAtStart, dirsAtStart, downloaded, rmtreeFailed>>

NextRunAll ==
    \/ RaCall
    \/ RaCheckZip
    \/ RaDownloadOk
    \/ RaDownloadFails
    \/ RaExtractOk
    \/ RaExtractFails
    \/ RaTmpFile
    \/ RaTmpFileFails
    \/ RaCollectAll
    \/ RaCleanup
    \/ RaCleanupFails
    \/ RaCount
    \/ RaSummary

SpecRunAll == InitRunAll /\ [][NextRunAll]_vars

(***************************************************************************)
(* Properties of collect_from_repo, checked under Spec.                    *)
(***************************************************************************)
CallEnded == pc = "done"

\* the output file holding every collected identifier of this call
CompleteOutput ==
    OutFileOf([i \in 1..Len(test_funcs) |-> OutputLine(test_funcs[i], RepoRoot)])

\* C1: when a call of collect_from_repo has ended, however it ended (return,
\* exception, timeout), the output file is absent, or as it was when the call
\* started, or holds every identifier the call collected: never a part of them.
C1_OutputAbsentOrComplete ==
    CallEnded =>
        \/ outFile.kind = "absent"
        \/ outFile = outAtStart
        \/ outFile = CompleteOutput

\* C2: a call that starts with the output file present returns SKIPPED (3, 0, 0)
\* and changes nothing: it never leaves the output check, no fetch is made, no
\* staging directory is created, and tree, archive and output file stay as they
\* were, whatever the tree, the archive cache and auto_download are.
C2_SkipChangesNothing ==
    (pc # "idle" /\ outAtStart.kind = "file") =>
        /\ pc \in {"check_output", "done"}
        /\ repoTree = treeAtStart
        /\ tarball = tarAtStart
        /\ outFile = outAtStart
        /\ tempDir = Absent
        /\ fetches = fetchesAtStart
        /\ ~placedHere
        /\ CallEnded => result = Ret(SKIPPED, 0, 0)

\* a skipped call that would otherwise have downloaded: no tree, no archive
C2_Witness ==
    /\ CallEnded
    /\ outAtStart.kind = "file"
    /\ treeAtStart = Absent
    /\ tarAtStart = Absent
    /\ auto_download
    /\ result = Ret(SKIPPED, 0, 0)

\* C3 as stated: the second call for the same identifier returns SKIPPED and
\* leaves the output file unchanged.
C3_SecondRunSkipped ==
    (runs >= 2 /\ CallEnded) =>
        /\ result = Ret(SKIPPED, 0, 0)
        /\ outFile = outAtStart

\* C3 amended: a call that follows a call which returned SUCCESS never changes
\* the output file and returns SKIPPED.
C3_RerunAfterSuccessSkipped ==
    (runs >= 2 /\ prevResult.kind = "ret" /\ prevResult.status = SUCCESS) =>
        /\ outFile = outAtStart
        /\ outFile.kind = "file"
        /\ CallEnded => result = Ret(SKIPPED, 0, 0)

\* a second call skipped after a first call that wrote three identifiers
C3_Witness ==
    /\ CallEnded
    /\ runs = 2
    /\ prevResult = Ret(SUCCESS, 2, 3)
    /\ Len(outFile.lines) = 3
    /\ result = Ret(SKIPPED, 0, 0)

\* the path of a collected function's file below the root of its own repository
BelowRepo(func_id) == SubSeq(func_id[1], Len(RepoPath) + 1, Len(func_id[1]))

\* C4: after a call that returned SUCCESS, every line of the output file has its
\* path relative to the repository's own root (test_foo.py::test_x for a
\* repository holding test_foo.py), not to the shared working-tree directory.
C4_PathsRelativeToRepo ==
    (CallEnded /\ result.kind = "ret" /\ result.status = SUCCESS) =>
        /\ Len(outFile.lines) = Len(test_funcs)
        /\ \A i \in 1..Len(test_funcs) :
              outFile.lines[i] = <<BelowRepo(test_funcs[i]), test_funcs[i][2]>>

\* C5: when a call that moved an extracted tree to repo_path has ended, on any
\* exit path, the tree is gone, unless shutil.rmtree itself failed.
C5_PlacedTreeRemoved ==
    (CallEnded /\ placedHere /\ ~cleanupFailed) => repoTree = Absent

\* C6: a directory that was at repo_path when the call started is there,
\* unchanged, in every state of the call and after it, on every exit path; the
\* call moved no tree of its own over it.
C6_PreexistingTreeUntouched ==
    (pc # "idle" /\ treeAtStart.kind = "dir") =>
        /\ repoTree = treeAtStart
        /\ ~placedHere

\* a call over a pre-existing tree that wrote the output and ran its cleanup
C6_Witness ==
    /\ CallEnded
    /\ treeAtStart = Dir(TreeTwo)
    /\ result = Ret(SUCCESS, 2, 3)
    /\ extracted_here = FALSE

\* corrupt bytes, no top-level directory, or more than one top-level entry
Malformed(a) ==
    \/ a.kind = "corrupt"
    \/ a.kind = "archive" /\ ExtractedDirs(a.entries) = {}
    \/ a.kind = "archive" /\ Cardinality(a.entries) > 1

\* C7: a call that extracts a malformed archive never moves a tree to repo_path
\* (it does not reach READY), returns EXTRACT_FAILED (5, 0, 0) and leaves no
\* directory at repo_path.
C7_MalformedArchiveFails ==
    (extractedFrom # Absent /\ Malformed(extractedFrom)) =>
        /\ ~placedHere
        /\ CallEnded => (result = Ret(EXTRACT_FAILED, 0, 0) /\ repoTree.kind # "dir")

\* C8: download_repo is called only by a call that found no file at
\* tarball_path, and a file at tarball_path is never removed or replaced: once
\* an archive is cached, no later step fetches again.
C8_FetchOnlyWithoutCachedArchive ==
    [][ /\ (fetches' # fetches => tarball.kind = "absent" /\ pc = "download")
        /\ (tarball.kind # "absent" => tarball' = tarball /\ fetches' = fetches)
      ]_vars

\* the second call extracts the archive the first call downloaded
C8_Witness ==
    /\ runs = 2
    /\ pc = "list_dirs"
    /\ tarAtStart \in Archives
    /\ fetches = 1
    /\ fetchesAtStart = 1
    /\ treeAtStart = Absent

Parses(f)    == f.parses
Candidate(f) == IsTestFileName(f.rel[Len(f.rel)])

RECURSIVE TestsFrom(_, _)
\* the identifiers of the candidate files of tree from position i on, in file
\* order and, within a file, in node order
TestsFrom(tree, i) ==
    IF i > Len(tree) THEN <<>>
    ELSE (IF Candidate(tree[i]) /\ tree[i].parses
          THEN [k \in 1..Len(tree[i].tests) |-> <<RepoPath \o tree[i].rel, tree[i].tests[k]>>]
          ELSE <<>>) \o TestsFrom(tree, i + 1)

RECURSIVE ContributingFrom(_, _)
\* the paths of the candidate files of tree that hold at least one test
ContributingFrom(tree, i) ==
    IF i > Len(tree) THEN <<>>
    ELSE (IF Candidate(tree[i]) /\ tree[i].parses /\ Len(tree[i].tests) > 0
          THEN <<RepoPath \o tree[i].rel>>
          ELSE <<>>) \o ContributingFrom(tree, i + 1)

\* the loop of line 224 has run over every candidate file
LoopFinished ==
    \/ pc = "collect_funcs" /\ idx > Len(all_files)
    \/ pc = "write"

\* the processing block ran to its end: a result is set and nothing is raised
ProcessedToCompletion ==
    /\ pc = "cleanup"
    /\ pending = "none"

\* C11: each iteration of the loop over the candidate files, unless the
\* repository timer fires in it, goes on to the next file and drops no identifier
\* collected so far, also for a file that fails to parse; and when the loop has
\* finished, the identifiers and contributing files, and then the counts returned
\* and the lines written, are exactly those of the tree with the failing files
\* taken out.
C11_FailingFileSkipped ==
    /\ [](LoopFinished =>
            /\ test_funcs = TestsFrom(SelectSeq(repoTree.files, Parses), 1)
            /\ test_files = ContributingFrom(SelectSeq(repoTree.files, Parses), 1))
    /\ [](ProcessedToCompletion =>
            /\ result.ntest = Len(TestsFrom(SelectSeq(repoTree.files, Parses), 1))
            /\ result.nfile = Len(ContributingFrom(SelectSeq(repoTree.files, Parses), 1))
            /\ result.ntest > 0 => Len(outFile.lines) = result.ntest)
    /\ [][ (pc = "collect_funcs" /\ idx <= Len(all_files) /\ timerFired' = timerFired)
             => /\ pc' = "collect_funcs"
                /\ idx' = idx + 1
                /\ pending' = "none"
                /\ SubSeq(test_funcs', 1, Len(test_funcs)) = test_funcs ]_vars

\* the loop finished over a tree whose second candidate file does not parse, with
\* the tests of the files before and after it collected
C11_Witness ==
    /\ pc = "write"
    /\ Len(all_files) = 3
    /\ ~FileAt(RepoPath, repoTree.files, all_files[2]).parses
    /\ Len(test_files) = 2
    /\ Len(test_funcs) = 3

\* C12: when the processing of a READY tree has run to completion, the status is
\* SUCCESS if at least one identifier was found in the tree and NO_TESTS_FOUND
\* otherwise; with SUCCESS the output file has test_count lines, one per
\* identifier in discovery order, and file_count is the number of files that
\* hold a test; with NO_TESTS_FOUND the counts are 0 and there is no output file.
C12_SuccessIffTestsFound ==
    ProcessedToCompletion =>
        LET found == TestsFrom(repoTree.files, 1)
            files == ContributingFrom(repoTree.files, 1)
        IN  /\ result.kind = "ret"
            /\ result.status = (IF Len(found) >= 1 THEN SUCCESS ELSE NO_TESTS_FOUND)
            /\ result.ntest = Len(found)
            /\ result.nfile = Len(files)
            /\ IF Len(found) >= 1
               THEN /\ outFile.kind = "file"
                    /\ Len(outFile.lines) = result.ntest
                    /\ \A i \in 1..Len(found) :
                          /\ outFile.lines[i][2] = found[i][2]
                          /\ SubSeq(found[i][1],
                                    Len(found[i][1]) - Len(outFile.lines[i][1]) + 1,
                                    Len(found[i][1])) = outFile.lines[i][1]
               ELSE outFile.kind = "absent"

\* three identifiers from two of three candidate files written
C12_Witness ==
    /\ ProcessedToCompletion
    /\ result = Ret(SUCCESS, 2, 3)
    /\ Len(all_files) = 3
    /\ Len(outFile.lines) = 3

\* C13: a call that finds no directory at repo_path and has auto_download false
\* returns NOT_FOUND (1, 0, 0) with no fetch and no extraction; a call whose
\* fetch was made and did not succeed returns DOWNLOAD_FAILED (4, 0, 0), and a
\* call returns that status only with auto_download true and no archive cached,
\* with no extraction; either way nothing is put at repo_path and no output file
\* is created.
C13_AcquisitionFailureNamesCause ==
    /\ []((CallEnded /\ outAtStart.kind = "absent" /\ treeAtStart.kind # "dir"
              /\ ~auto_download) =>
            /\ result = Ret(NOT_FOUND, 0, 0)
            /\ fetches = fetchesAtStart
            /\ tarball = tarAtStart)
    /\ []((CallEnded /\ result.kind = "ret"
              /\ result.status \in {NOT_FOUND, DOWNLOAD_FAILED}) =>
            /\ result.nfile = 0 /\ result.ntest = 0
            /\ treeAtStart.kind # "dir"
            /\ result.status = DOWNLOAD_FAILED =>
                  (auto_download /\ tarAtStart = Absent /\ fetches = fetchesAtStart + 1)
            /\ extractedFrom = Absent
            /\ tempDir = Absent
            /\ ~placedHere
            /\ repoTree = treeAtStart
            /\ outFile.kind = "absent")
    /\ [][ (pc = "download" /\ pc' # "extract")
             => /\ pc' = "done"
                /\ result' = Ret(DOWNLOAD_FAILED, 0, 0)
                /\ fetches' = fetches + 1 ]_vars

\* a failed fetch, and a call without auto_download, both with nothing at repo_path
C13_Witness ==
    /\ CallEnded
    /\ treeAtStart = Absent
    /\ \/ result = Ret(DOWNLOAD_FAILED, 0, 0) /\ fetches = fetchesAtStart + 1
       \/ result = Ret(NOT_FOUND, 0, 0) /\ tarAtStart # Absent

(***************************************************************************)
(* Properties of main, checked under SpecFleet.                            *)
(***************************************************************************)
\* the repositories of the list that timed out
TimedOutRepos ==
    {i \in DOMAIN status_nfile_ntest : status_nfile_ntest[i].kind = "none"}

\* the repositories of the list that returned status s
ReposWithStatus(s) ==
    {i \in DOMAIN status_nfile_ntest :
        status_nfile_ntest[i].kind = "ret" /\ status_nfile_ntest[i].status = s}

RECURSIVE CountOver(_, _, _)
\* the sum of field fld over the repositories of all that returned a tuple
CountOver(all, i, fld) ==
    IF i > Len(all) THEN 0
    ELSE (IF all[i].kind = "ret" THEN all[i][fld] ELSE 0) + CountOver(all, i + 1, fld)

\* C9: given a list of at least one repository, main never raises, whatever mix
\* of status tuples and timed-out repositories mp_map_repos returns, the mix in
\* which every repository timed out included.
C9_MainCompletes == nrepos >= 1 => mainPc # "raised"

InFlight(w) == worker[w].at # "idle"

\* the sanitized name the task of worker w works on
TaskName(w) == wrap_repo(repo_id_list[worker[w].task])

\* C14: at no time are two tasks in flight for the same repository, that is for
\* the same sanitized name, which names the working tree, the archive and the
\* output file; for every list, duplicates included, and every worker count.
C14_OneTaskPerRepository ==
    \A w1, w2 \in DOMAIN worker :
        (w1 # w2 /\ InFlight(w1) /\ InFlight(w2)) => TaskName(w1) # TaskName(w2)

(***************************************************************************)
(* Properties of collect_test_funcs, checked under SpecClassify.           *)
(***************************************************************************)
RECURSIVE IsBelow(_, _)
\* node n lies below node r in the module
IsBelow(n, r) ==
    /\ ast[n].parent # 0
    /\ \/ ast[n].parent = r
       \/ IsBelow(ast[n].parent, r)

NodeIds == 1..Len(ast)

FunctionDefs == {n \in NodeIds : ast[n].kind = "FunctionDef"}

\* the classes the function n is nested in
ClassesAround(n) == {c \in NodeIds : ast[c].kind = "ClassDef" /\ IsBelow(n, c)}

\* collect_test_funcs returned the function n
Kept(n) == \E k \in 1..Len(kept) : kept[k].node = n

Returned == clsPc = "done"

\* node m is assertion-shaped: an assert statement, a call of a member whose
\* name starts with assert, or a call of a bare name that starts with assert or
\* is raises, fail or ok_
AssertionShaped(m) ==
    \/ ast[m].kind = "Assert"
    \/ /\ ast[m].kind = "Call"
       /\ \/ ast[m].func.kind = "Attribute" /\ startswith(ast[m].func.name, "assert")
          \/ ast[m].func.kind = "Name" /\ startswith(ast[m].func.name, "assert")
          \/ ast[m].func.kind = "Name" /\ ast[m].func.name \in {"raises", "fail", "ok_"}

\* there is assertion evidence somewhere under the function n
Evidence(n) == \E m \in NodeIds : IsBelow(m, n) /\ AssertionShaped(m)

TestClassByDirectMembers(c) ==
    /\ ast[c].kind = "ClassDef"
    /\ \/ startswith(ast[c].name, "Test")
       \/ \E b \in 1..Len(ast[c].bases) :
             ast[c].bases[b].kind \in {"Name", "Attribute"} /\ ast[c].bases[b].name = "TestCase"
    /\ ~\E m \in FunctionDefs : ast[m].parent = c /\ ast[m].name = "__init__"

\* C16: a class is taken as a test class exactly when it has the Test prefix or
\* a base named TestCase and no __init__ among its direct function members, and
\* the test-prefixed methods with assertion evidence of such a class are
\* returned.
C16_TestClassByDirectMembers ==
    Returned =>
      /\ \A c \in NodeIds : is_test_cls(ast, c) <=> TestClassByDirectMembers(c)
      /\ \A n \in FunctionDefs :
              (/\ ast[n].parent # 0
               /\ TestClassByDirectMembers(ast[n].parent)
               /\ ClassesAround(n) = {ast[n].parent}
               /\ startswith(ast[n].name, "test")
               /\ Evidence(n)) => Kept(n)

\* C17: no function returned by collect_test_funcs is nested in a class that is
\* not a test class, wherever that class stands on its ancestor path.
C17_NoTestInNonTestClass ==
    Returned =>
        \A n \in FunctionDefs :
            Kept(n) => \A c \in ClassesAround(n) : is_test_cls(ast, c)

BareStaticDecorator(n) ==
    \E d \in NodeIds :
        /\ ast[d].parent = n
        /\ ast[d].slot = "decorator"
        /\ ast[d].kind = "Name"
        /\ ast[d].name \in {"staticmethod", "classmethods"}

\* C20: for a function all of whose enclosing classes are test classes, the
\* placement test passes exactly when its name starts with test or it carries a
\* decorator that is the bare name staticmethod or classmethods, and it is
\* returned exactly when it also has assertion evidence.
C20_DecoratorEligibility ==
    \A n \in FunctionDefs :
        (/\ ClassesAround(n) # {}
         /\ \A c \in ClassesAround(n) : is_test_cls(ast, c)) =>
            /\ is_test_inside_cls(ast, n, get_path_to(ast, n))
                  <=> (startswith(ast[n].name, "test") \/ BareStaticDecorator(n))
            /\ Returned =>
                  (Kept(n) <=> /\ startswith(ast[n].name, "test") \/ BareStaticDecorator(n)
                               /\ Evidence(n))

\* helper decorated @staticmethod in class TestA, with an assert, was returned
C20_Witness ==
    /\ Returned
    /\ \E n \in FunctionDefs :
          /\ ast[n].name = "helper"
          /\ ast[n].parent # 0
          /\ is_test_cls(ast, ast[n].parent)
          /\ BareStaticDecorator(n)
          /\ Kept(n)

(***************************************************************************)
(* Properties of run_all.py, checked under SpecRunAll.                     *)
(***************************************************************************)
\* the call of process_single_repository for repository j is over
CallOver(j) ==
    \/ j < raIdx
    \/ j = raIdx /\ raPc \in {"returned", "raised"}

\* C18: once the call of process_single_repository for a repository is over,
\* however it ended, nothing is left at its repo_path unless shutil.rmtree
\* failed for it, a ZIP that was cached before the run is there unchanged, and a
\* ZIP the call downloaded is there; so only the repository being processed can
\* hold a tree that the run extracted.
C18_TreeRemovedZipKept ==
    \A j \in DOMAIN repoDirs :
        /\ CallOver(j) =>
              /\ repoDirs[j] = "absent" \/ j \in rmtreeFailed
              /\ zipsAtStart[j] # "absent" => zipFiles[j] = zipsAtStart[j]
              /\ j \in downloaded => zipFiles[j] # "absent"
        /\ (j > raIdx /\ zipsAtStart[j] # "absent") => zipFiles[j] = zipsAtStart[j]

\* the second call of the run has returned True: its ZIP was downloaded and
\* extracted and collect_all ran; the tree is gone and the ZIP is kept, as is the
\* cached ZIP of the first repository, whose call returned True too
C18_Witness ==
    /\ raIdx = 2
    /\ raPc = "returned"
    /\ success = "True"
    /\ 2 \in downloaded
    /\ zipFiles[2] = "zip"
    /\ repoDirs[2] = "absent"
    /\ zipsAtStart[1] = "zip"
    /\ zipFiles[1] = "zip"
    /\ repoDirs[1] = "absent"
    /\ rmtreeFailed = {}
    /\ successful_count = 1

(***************************************************************************)
(* Properties of collect_test_files, checked under Spec.                   *)
(***************************************************************************)
\* the name is test_*.py or *_test.py as a whole: it ends with .py and either
\* starts with test_ or has _test right before the extension
WholeNameMatches(name) ==
    LET cs == Chars(name)
    IN  /\ Len(cs) >= 3
        /\ SubSeq(cs, Len(cs) - 2, Len(cs)) = <<".","p","y">>
        /\ \/ /\ Len(cs) >= 8
              /\ SubSeq(cs, 1, 5) = <<"t","e","s","t","_">>
           \/ /\ Len(cs) >= 8
              /\ SubSeq(cs, Len(cs) - 7, Len(cs)) = <<"_","t","e","s","t",".","p","y">>

\* the files collect_test_files returned are in use: from line 222 to the end of
\* the loop over them
FilesCollected == pc = "collect_funcs"

\* C21: the files returned by collect_test_files are exactly the files of the
\* tree, in whatever directory, whose whole name is test_*.py or *_test.py.
C21_WholeNameSelected ==
    FilesCollected =>
        {all_files[i] : i \in 1..Len(all_files)}
          = {RepoPath \o repoTree.files[k].rel :
                k \in {j \in 1..Len(repoTree.files) :
                          WholeNameMatches(repoTree.files[j].rel[Len(repoTree.files[j].rel)])}}

\* C22: whatever is at a repository's zip_path was downloaded in full: no
\* download that stopped part-way has left its chunks there.
C22_ZipPresentIsComplete ==
    \A j \in DOMAIN zipFiles : zipFiles[j] # "partial"

\* C23: once the call of process_single_repository for a repository is over,
\* however it ended, a directory that was at its repo_path before the run is
\* still there.
C23_PreexistingTreeKept ==
    \A j \in DOMAIN repoDirs :
        (CallOver(j) /\ dirsAtStart[j] = "dir") => repoDirs[j] = "dir"

====
